---- MODULE Spec2Model ----
(***************************************************************************)
(* Reminder / recurrence scheduling core of the todo application.          *)
(*                                                                         *)
(*   - ReminderCalculator (backend/reminder-agent/services)                *)
(*   - the recurring-task generator (phase-v/services/recurring-task-...)  *)
(*   - DuplicateChecker, TaskReader, DeliveryTracker, ReminderProcessor    *)
(*   - handle_task_event of the recurring-task service                     *)
(*                                                                         *)
(* A datetime is the number of seconds since 2024-01-01T00:00:00, which    *)
(* is a Monday, so that weekday() = (day number) % 7 with Monday = 0 as    *)
(* in Python.  Python's None is the value None (-1).                       *)
(***************************************************************************)
EXTENDS Integers, Sequences, FiniteSets, TLC

VARIABLES
    \* ---- calculator specification (SpecCalc)
    cin,        \* the inputs drawn for the pure functions
    cres,       \* their results, and which functions have been applied (done)
    \* ---- duplicate-checker specification (SpecDup)
    dlog,       \* reminder_log rows: [task_id, reminder_datetime]
    dq,         \* the query (task_id, reminder_datetime) and its answer
    \* ---- polling loop (Spec)
    now,        \* wall clock (Asia/Karachi local time, naive)
    db,         \* tasks table: task id -> row
    rlog,       \* reminder_log table
    agent,      \* agent_state table (a set of rows)
    pc,         \* "idle" | "running": position of ReminderProcessor.run
    tasks,      \* the list fetched by this cycle (snapshots)
    idx,        \* index of the next task of the for loop
    cnt,        \* the cycle's local counters
    cycle,      \* number of cycles started
    trace,      \* history: what the loop did with each task of this cycle
    sends,      \* history: every invocation of EmailSender.send
    ticks,      \* number of clock advances so far
    nfail,      \* number of failures injected so far
    fault,      \* history: a reminder_log read or write has failed
    active,     \* scheduler: instances of the job that are running
    hb,         \* history: the heartbeat as the successful updates add up
    last_end,   \* history: how the previous run ended
    \* ---- event-driven generator (SpecEvent)
    estore,     \* Dapr state store: set of idempotency keys saved
    epub,       \* history: task.created events published, per source event
    eh,         \* the handler in progress (or Idle)
    edeliv,     \* number of deliveries so far, per event
    eret,       \* history: status returned by each finished delivery
    efault,     \* history: a state-store read has failed
    \* ---- API service, completion toggle (SpecApi)
    atasks,     \* tasks table of the API service, in order of creation
    acalls      \* number of toggle_complete calls so far

calcVars  == <<cin, cres>>
dupVars   == <<dlog, dq>>
cycleVars == <<now, db, rlog, agent, pc, tasks, idx, cnt, cycle, trace, sends,
               ticks, nfail, fault, active, hb, last_end>>
eventVars == <<estore, epub, eh, edeliv, eret, efault>>
apiVars   == <<atasks, acalls>>
vars      == <<calcVars, dupVars, cycleVars, eventVars, apiVars>>
notCalc   == <<dupVars, cycleVars, eventVars, apiVars>>
notDup    == <<calcVars, cycleVars, eventVars, apiVars>>
notCycle  == <<calcVars, dupVars, eventVars, apiVars>>
notEvent  == <<calcVars, dupVars, cycleVars, apiVars>>
notApi    == <<calcVars, dupVars, cycleVars, eventVars>>

None  == 0 - 1

(***************************************************************************)
(* Calendar arithmetic of datetime / dateutil.relativedelta.               *)
(***************************************************************************)
EpochYear == 2023 + 1
SecPerDay == 24 * 60 * 60
SECONDS_PER_MINUTE == 60
Minute    == SECONDS_PER_MINUTE
Hour      == 60 * 60

IsLeap(y) == (y % 4 = 0 /\ y % 100 # 0) \/ y % 400 = 0

DaysInYear(y) == IF IsLeap(y) THEN 366 ELSE 365

DaysInMonth(y, m) ==
    IF m = 2 THEN (IF IsLeap(y) THEN 29 ELSE 28)
    ELSE IF m \in {4, 6, 9, 11} THEN 30 ELSE 31

RECURSIVE DaysBeforeYear(_)
DaysBeforeYear(y) ==
    IF y <= EpochYear THEN 0 ELSE DaysBeforeYear(y - 1) + DaysInYear(y - 1)

RECURSIVE DaysBeforeMonth(_, _)
DaysBeforeMonth(y, m) ==
    IF m <= 1 THEN 0 ELSE DaysBeforeMonth(y, m - 1) + DaysInMonth(y, m - 1)

\* date(y, m, d) as a day number
ToOrdinal(y, m, d) == DaysBeforeYear(y) + DaysBeforeMonth(y, m) + d - 1

RECURSIVE YearFrom(_, _)
YearFrom(y, o) ==
    IF o < DaysInYear(y) THEN <<y, o>> ELSE YearFrom(y + 1, o - DaysInYear(y))

RECURSIVE MonthFrom(_, _, _)
MonthFrom(y, m, o) ==
    IF o < DaysInMonth(y, m) THEN <<m, o + 1>>
    ELSE MonthFrom(y, m + 1, o - DaysInMonth(y, m))

\* the (year, month, day) of a day number
YMD(o) ==
    LET yo == YearFrom(EpochYear, o)
        mo == MonthFrom(yo[1], 1, yo[2])
    IN  [y |-> yo[1], m |-> mo[1], d |-> mo[2]]

DateOf(dt)  == dt \div SecPerDay          \* datetime.date()
TimeOf(dt)  == dt % SecPerDay             \* datetime.time()
Combine(date, tod) == date * SecPerDay + tod   \* datetime.combine
Weekday(date) == date % 7                 \* date.weekday(), Monday = 0
DayOfMonth(date) == YMD(date).d

\* date.replace(day = d) raises ValueError when the month has no day d
ReplaceDayOk(date, d) == d >= 1 /\ d <= DaysInMonth(YMD(date).y, YMD(date).m)
ReplaceDay(date, d) == ToOrdinal(YMD(date).y, YMD(date).m, d)

\* date + relativedelta(months = n): the day is clamped to the month's length
AddMonths(date, n) ==
    LET c  == YMD(date)
        k  == c.y * 12 + (c.m - 1) + n
        y2 == k \div 12
        m2 == (k % 12) + 1
        d2 == IF c.d <= DaysInMonth(y2, m2) THEN c.d ELSE DaysInMonth(y2, m2)
    IN  ToOrdinal(y2, m2, d2)

DT(y, m, d, tod) == Combine(ToOrdinal(y, m, d), tod)

(***************************************************************************)
(* ReminderCalculator (reminder-agent/services/reminder_calculator.py)     *)
(* A task is a record with the fields the calculator reads.                *)
(***************************************************************************)
GRACE_PERIOD_DAYS == 7
DUPLICATE_CHECK_TOLERANCE_SECONDS == 60
OverdueGrace == 5 * Minute      \* timedelta(minutes=5), reminder_calculator.py:119

\* same as RC_calculate_one_time with a reminder exactly five minutes
\* overdue counted as missed
RC_calculate_one_time_Mut(task, t) ==
    IF task.reminder_time > t - OverdueGrace THEN task.reminder_time ELSE None

RC_calculate_one_time(task, t) ==
    IF task.reminder_time >= t - OverdueGrace THEN task.reminder_time ELSE None

\* same as RC_calculate_daily with the comparison turned round
RC_calculate_daily_Mut(task, t) ==
    LET today_reminder == Combine(DateOf(t), TimeOf(task.reminder_time))
    IN  IF today_reminder < t THEN today_reminder
        ELSE today_reminder + SecPerDay

\* same as RC_calculate_daily with today's occurrence kept when it is
\* exactly at the reference time
RC_calculate_daily_Boundary_Mut(task, t) ==
    LET today_reminder == Combine(DateOf(t), TimeOf(task.reminder_time))
    IN  IF today_reminder >= t THEN today_reminder
        ELSE today_reminder + SecPerDay

RC_calculate_daily(task, t) ==
    LET today_reminder == Combine(DateOf(t), TimeOf(task.reminder_time))
    IN  IF today_reminder > t THEN today_reminder
        ELSE today_reminder + SecPerDay

\* same as RC_calculate_weekly with today's occurrence kept when it is at
\* the reference time
RC_calculate_weekly_Mut(task, t) ==
    LET target_weekday    == Weekday(DateOf(task.reminder_time))
        reminder_time_obj == TimeOf(task.reminder_time)
        days_until_target == (target_weekday - Weekday(DateOf(t))) % 7
        today_reminder    == Combine(DateOf(t), reminder_time_obj)
    IN  IF days_until_target = 0
        THEN IF today_reminder >= t THEN today_reminder
             ELSE today_reminder + 7 * SecPerDay
        ELSE Combine(DateOf(t) + days_until_target, reminder_time_obj)

RC_calculate_weekly(task, t) ==
    LET target_weekday    == Weekday(DateOf(task.reminder_time))
        reminder_time_obj == TimeOf(task.reminder_time)
        days_until_target == (target_weekday - Weekday(DateOf(t))) % 7
        today_reminder    == Combine(DateOf(t), reminder_time_obj)
    IN  IF days_until_target = 0
        THEN IF today_reminder > t THEN today_reminder
             ELSE today_reminder + 7 * SecPerDay
        ELSE Combine(DateOf(t) + days_until_target, reminder_time_obj)

\* same as RC_calculate_monthly with the fallback of the current month
\* left on the first day of the next month
RC_calculate_monthly_Mut(task, t) ==
    LET target_day        == DayOfMonth(DateOf(task.reminder_time))
        reminder_time_obj == TimeOf(task.reminder_time)
        today             == DateOf(t)
        first             == ReplaceDay(today, 1)
        this_month_date   == IF ReplaceDayOk(today, target_day)
                             THEN ReplaceDay(today, target_day)
                             ELSE AddMonths(first, 1)
        this_month_reminder == Combine(this_month_date, reminder_time_obj)
        plus1             == AddMonths(today, 1)
        next_month_date   == IF ReplaceDayOk(plus1, target_day)
                             THEN ReplaceDay(plus1, target_day)
                             ELSE AddMonths(first, 2) - 1
    IN  IF this_month_reminder > t THEN this_month_reminder
        ELSE Combine(next_month_date, reminder_time_obj)

RC_calculate_monthly(task, t) ==
    LET target_day        == DayOfMonth(DateOf(task.reminder_time))
        reminder_time_obj == TimeOf(task.reminder_time)
        today             == DateOf(t)
        first             == ReplaceDay(today, 1)
        this_month_date   == IF ReplaceDayOk(today, target_day)
                             THEN ReplaceDay(today, target_day)
                             ELSE AddMonths(first, 1) - 1
        this_month_reminder == Combine(this_month_date, reminder_time_obj)
        plus1             == AddMonths(today, 1)
        next_month_date   == IF ReplaceDayOk(plus1, target_day)
                             THEN ReplaceDay(plus1, target_day)
                             ELSE AddMonths(first, 2) - 1
    IN  IF this_month_reminder > t THEN this_month_reminder
        ELSE Combine(next_month_date, reminder_time_obj)

calculate_reminder_datetime(task, t) ==
    IF task.reminder_time = None THEN None
    ELSE IF task.recurrence_pattern = "none"    THEN RC_calculate_one_time(task, t)
    ELSE IF task.recurrence_pattern = "daily"   THEN RC_calculate_daily(task, t)
    ELSE IF task.recurrence_pattern = "weekly"  THEN RC_calculate_weekly(task, t)
    ELSE IF task.recurrence_pattern = "monthly" THEN RC_calculate_monthly(task, t)
    ELSE None

\* (now - task.due_date).days: timedelta.days is the floor of the day count
DaysOverdue(task, t) == (t - task.due_date) \div SecPerDay

should_skip_reminder(task, t) ==
    IF task.completed THEN TRUE
    ELSE IF task.due_date # None /\ DaysOverdue(task, t) > GRACE_PERIOD_DAYS THEN TRUE
    ELSE FALSE

(***************************************************************************)
(* Recurring-task generator (recurring-task-service/app/generator.py).     *)
(* A rule is [frequency, interval, days_of_week, day_of_month]; the list   *)
(* days_of_week is kept as the set of its members (it is only sorted and   *)
(* scanned).  original_due_date is None when the event carries none.       *)
(***************************************************************************)
SetMin(S) == CHOOSE x \in S : \A z \in S : x <= z

\* next_date.replace(hour=, minute=, second=) of original_due_date
PreserveTime(next_date, original_due_date) ==
    IF original_due_date = None THEN next_date
    ELSE Combine(DateOf(next_date), TimeOf(original_due_date))

\* a daily generator that places the occurrence on the completion day itself
Gen_calculate_daily_Mut(completed_at, interval, original_due_date) ==
    PreserveTime(completed_at, original_due_date)

\* _calculate_daily keeping the completion day's occurrence while it is
\* still ahead, and moving by the interval otherwise
Gen_calculate_daily_KeepToday_Mut(completed_at, interval, original_due_date) ==
    IF PreserveTime(completed_at, original_due_date) > completed_at
    THEN PreserveTime(completed_at, original_due_date)
    ELSE PreserveTime(completed_at + interval * SecPerDay, original_due_date)

Gen_calculate_daily(completed_at, interval, original_due_date) ==
    PreserveTime(completed_at + interval * SecPerDay, original_due_date)

\* _calculate_weekly scanning for the first listed weekday on or after the
\* completion day
Gen_calculate_weekly_Mut(completed_at, interval, days_of_week, original_due_date) ==
    IF days_of_week = {} THEN None
    ELSE
      LET current_weekday == Weekday(DateOf(completed_at))
          later           == {d \in days_of_week : d >= current_weekday}
          days_ahead      ==
              IF later # {} THEN SetMin(later) - current_weekday
              ELSE (7 - current_weekday) + SetMin(days_of_week)
                   + (IF interval > 1 THEN (interval - 1) * 7 ELSE 0)
      IN  PreserveTime(completed_at + days_ahead * SecPerDay, original_due_date)

\* _calculate_weekly counting the wrap into the next week from the
\* completion day instead of from the end of its week
Gen_calculate_weekly_Wrap_Mut(completed_at, interval, days_of_week, original_due_date) ==
    IF days_of_week = {} THEN None
    ELSE
      LET current_weekday == Weekday(DateOf(completed_at))
          later           == {d \in days_of_week : d > current_weekday}
          days_ahead      ==
              IF later # {} THEN SetMin(later) - current_weekday
              ELSE 7 + SetMin(days_of_week)
                   + (IF interval > 1 THEN (interval - 1) * 7 ELSE 0)
      IN  PreserveTime(completed_at + days_ahead * SecPerDay, original_due_date)

Gen_calculate_weekly(completed_at, interval, days_of_week, original_due_date) ==
    IF days_of_week = {} THEN None
    ELSE
      LET current_weekday == Weekday(DateOf(completed_at))
          later           == {d \in days_of_week : d > current_weekday}
          days_ahead      ==
              IF later # {} THEN SetMin(later) - current_weekday
              ELSE (7 - current_weekday) + SetMin(days_of_week)
                   + (IF interval > 1 THEN (interval - 1) * 7 ELSE 0)
      IN  PreserveTime(completed_at + days_ahead * SecPerDay, original_due_date)

\* _calculate_monthly keeping the day that completed_at + interval months
\* falls on instead of placing day_of_month
Gen_calculate_monthly_Mut(completed_at, interval, day_of_month, original_due_date) ==
    IF day_of_month = None \/ day_of_month = 0 THEN None
    ELSE IF day_of_month < 1 \/ day_of_month > 31 THEN None
    ELSE
      LET moved     == AddMonths(DateOf(completed_at), interval)
          next_date == Combine(moved, TimeOf(completed_at))
      IN  PreserveTime(next_date, original_due_date)

Gen_calculate_monthly(completed_at, interval, day_of_month, original_due_date) ==
    IF day_of_month = None \/ day_of_month = 0 THEN None
    ELSE IF day_of_month < 1 \/ day_of_month > 31 THEN None
    ELSE
      LET moved    == AddMonths(DateOf(completed_at), interval)
          last_day == DayOfMonth(AddMonths(ReplaceDay(moved, 1), 1) - 1)
          day      == IF ReplaceDayOk(moved, day_of_month) THEN day_of_month
                      ELSE (IF day_of_month < last_day THEN day_of_month ELSE last_day)
          next_date == Combine(ReplaceDay(moved, day), TimeOf(completed_at))
      IN  PreserveTime(next_date, original_due_date)

calculate_next_occurrence(completed_at, rule, original_due_date) ==
    IF rule.frequency = "daily"
    THEN Gen_calculate_daily(completed_at, rule.interval, original_due_date)
    ELSE IF rule.frequency = "weekly"
    THEN Gen_calculate_weekly(completed_at, rule.interval, rule.days_of_week,
                              original_due_date)
    ELSE IF rule.frequency = "monthly"
    THEN Gen_calculate_monthly(completed_at, rule.interval, rule.day_of_month,
                               original_due_date)
    ELSE None

(***************************************************************************)
(* DuplicateChecker.exists: the SELECT over reminder_log, and the          *)
(* fail-safe answer when the session raises.                               *)
(***************************************************************************)
\* a duplicate check that leaves the upper end of the window out
DuplicateQuery_Mut(log, task_id, reminder_datetime) ==
    \E r \in log :
        /\ r.task_id = task_id
        /\ r.reminder_datetime >= reminder_datetime - DUPLICATE_CHECK_TOLERANCE_SECONDS
        /\ r.reminder_datetime <  reminder_datetime + DUPLICATE_CHECK_TOLERANCE_SECONDS

DuplicateQuery(log, task_id, reminder_datetime) ==
    LET tolerance    == DUPLICATE_CHECK_TOLERANCE_SECONDS
        start_window == reminder_datetime - tolerance
        end_window   == reminder_datetime + tolerance
    IN  \E r \in log :
            /\ r.task_id = task_id
            /\ r.reminder_datetime >= start_window
            /\ r.reminder_datetime <= end_window

\* a duplicate check that answers "already sent" when the lookup raises
DuplicateChecker_exists_Mut(log, task_id, reminder_datetime, ok) ==
    IF ok THEN DuplicateQuery(log, task_id, reminder_datetime) ELSE TRUE

\* ok = FALSE: the lookup raised inside the try block
DuplicateChecker_exists(log, task_id, reminder_datetime, ok) ==
    IF ok THEN DuplicateQuery(log, task_id, reminder_datetime) ELSE FALSE

(***************************************************************************)
(* SpecCalc: the pure functions applied to inputs drawn from bounded sets. *)
(***************************************************************************)
MaxInterval == 2        \* recurrence intervals 1..MaxInterval

Patterns == {"none", "daily", "weekly", "monthly"}

\* reference dates: a Monday, a Wednesday, month ends of 28, 29, 30 and 31
\* days, a leap and a common February, and a year end
RefDates ==
    { ToOrdinal(2024, 1, 15), ToOrdinal(2024, 1, 17), ToOrdinal(2024, 1, 31),
      ToOrdinal(2024, 2, 15), ToOrdinal(2024, 2, 29), ToOrdinal(2024, 4, 30),
      ToOrdinal(2025, 1, 31), ToOrdinal(2025, 2, 28), ToOrdinal(2025, 12, 31) }

\* times of day around the anchors' 09:00:00, and both ends of the day
RefTimes ==
    { 0, 8 * Hour, 9 * Hour, 9 * Hour + OverdueGrace, 9 * Hour + OverdueGrace + 1,
      SecPerDay - 1 }

AnchorDates ==
    { ToOrdinal(2024, 1, 15), ToOrdinal(2024, 1, 17), ToOrdinal(2024, 1, 30),
      ToOrdinal(2024, 1, 31) }

AnchorTimes == { 0, 9 * Hour }

\* explicit weekday lists of the generator's rule; {} stands for "take the
\* anchor's weekday" and is replaced by it in RuleOf
DowChoices == { {}, {0, 2}, {6} }
\* explicit day_of_month; None stands for "take the anchor's day"
DomChoices == { None, 31, 30 }

CalcInputs ==
    { [kind |-> "calc", now |-> Combine(d, t), anchor |-> Combine(ad, at),
       pattern |-> p, interval |-> i, dow |-> w, dom |-> m, use_due |-> u,
       due_date |-> None, completed |-> FALSE] :
        d \in RefDates, t \in RefTimes, ad \in AnchorDates, at \in AnchorTimes,
        p \in Patterns, i \in 1..MaxInterval, w \in DowChoices, m \in DomChoices,
        u \in BOOLEAN }

\* only the parameters a pattern reads are varied
CalcInputOk(c) ==
    /\ (c.pattern \in {"none"} => c.interval = 1 /\ c.use_due)
    /\ (c.pattern # "weekly"  => c.dow = {})
    /\ (c.pattern # "monthly" => c.dom = None)

\* how far the due date lies behind the reference time, for the grace gate
OverdueChoices ==
    { 0 - SecPerDay, 0, 7 * SecPerDay, 7 * SecPerDay + 1, 7 * SecPerDay + 12 * Hour,
      8 * SecPerDay - 1, 8 * SecPerDay, 8 * SecPerDay + 1, 30 * SecPerDay }

GateInputs ==
    { [kind |-> "gate", now |-> Combine(d, t), anchor |-> Combine(d, t),
       pattern |-> p, interval |-> 1, dow |-> {}, dom |-> None, use_due |-> TRUE,
       due_date |-> (IF o = None THEN None ELSE Combine(d, t) - o),
       completed |-> c] :
        d \in {ToOrdinal(2024, 2, 15), ToOrdinal(2025, 12, 31)},
        t \in {0, 9 * Hour}, p \in Patterns,
        o \in OverdueChoices \cup {None}, c \in BOOLEAN }

REMINDER_LOOKAHEAD_MINUTES == 5

\* TaskReader._should_process_now with the end of the lookahead window
\* included, as in "[now, lookahead]"
should_process_now_Mut(task, t, lookahead) ==
    IF task.reminder_time = None THEN FALSE
    ELSE IF task.recurrence_pattern = "none"
         THEN t - OverdueGrace <= task.reminder_time /\ task.reminder_time <= lookahead
         ELSE TRUE

\* TaskReader._should_process_now(task, now, lookahead)
should_process_now(task, t, lookahead) ==
    IF task.reminder_time = None THEN FALSE
    ELSE IF task.recurrence_pattern = "none"
         THEN t - OverdueGrace <= task.reminder_time /\ task.reminder_time < lookahead
         ELSE TRUE

\* where the reminder lies relative to the reference time, for the fetch
\* filter: both ends of the window and the seconds next to them
FetchOffsets ==
    { 0 - SecPerDay, 0 - OverdueGrace - 1, 0 - OverdueGrace, 0,
      REMINDER_LOOKAHEAD_MINUTES * Minute - 1, REMINDER_LOOKAHEAD_MINUTES * Minute,
      SecPerDay }

FetchInputs ==
    { [kind |-> "fetch", now |-> Combine(d, t),
       anchor |-> (IF o = None THEN None ELSE Combine(d, t) + o),
       pattern |-> p, interval |-> 1, dow |-> {}, dom |-> None, use_due |-> TRUE,
       due_date |-> None, completed |-> FALSE] :
        d \in {ToOrdinal(2024, 2, 15), ToOrdinal(2025, 12, 31)},
        t \in {0, 9 * Hour}, p \in Patterns, o \in FetchOffsets \cup {None} }

\* the task snapshot the reminder agent's calculator reads
CalcTask(c) ==
    [reminder_time |-> c.anchor, recurrence_pattern |-> c.pattern,
     due_date |-> c.due_date, completed |-> c.completed]

\* the recurrence rule the generator reads
RuleOf(c) ==
    [frequency    |-> c.pattern,
     interval     |-> c.interval,
     days_of_week |-> IF c.dow = {} THEN {Weekday(DateOf(c.anchor))} ELSE c.dow,
     day_of_month |-> IF c.dom = None THEN DayOfMonth(DateOf(c.anchor)) ELSE c.dom]

OriginalDue(c) == IF c.use_due THEN c.anchor ELSE None

\* validate_recurrence_rule(recurrence_rule) of the API service: TRUE when
\* the rule is accepted (days_of_week 1..7 with Monday = 1, Sunday = 7)
validate_recurrence_rule(rule) ==
    /\ rule.frequency \in {"daily", "weekly", "monthly"}
    /\ rule.frequency = "weekly" =>
          rule.days_of_week # {} /\ \A day \in rule.days_of_week : day >= 1 /\ day <= 7
    /\ rule.frequency = "monthly" =>
          rule.day_of_month # None /\ rule.day_of_month >= 1 /\ rule.day_of_month <= 31
    /\ rule.interval >= 1

\* days_of_week lists a client sends with a weekly rule
ApiDowChoices == { {}, {0, 2}, {1}, {7}, {1, 3}, {2, 5}, {6, 7}, {1, 2, 3, 4, 5, 6, 7}, {8} }

\* a weekly rule posted to the API and later read by the generator
RuleInputs ==
    { [kind |-> "rule", now |-> Combine(d, t), anchor |-> Combine(d, t),
       pattern |-> "weekly", interval |-> i, dow |-> w, dom |-> None,
       use_due |-> FALSE, due_date |-> None, completed |-> FALSE] :
        d \in RefDates, t \in {9 * Hour}, i \in 1..MaxInterval, w \in ApiDowChoices }

\* the rule as posted: days_of_week as sent, nothing filled in
PostedRule(c) ==
    [frequency |-> c.pattern, interval |-> c.interval,
     days_of_week |-> c.dow, day_of_month |-> c.dom]

CalcInit ==
    /\ cin \in {c \in CalcInputs : CalcInputOk(c)} \cup GateInputs \cup FetchInputs
                \cup RuleInputs
    /\ cres = [rem |-> None, gen |-> None, skip |-> FALSE, proc |-> FALSE,
               rem2 |-> None, keep2 |-> None, gen2 |-> None,
               accepted |-> FALSE, done |-> {}]

\* ReminderCalculator.calculate_reminder_datetime(task, now)
ApplyReminderCalculator ==
    /\ cin.kind = "calc" /\ "rem" \notin cres.done
    /\ cres' = [cres EXCEPT !.rem = calculate_reminder_datetime(CalcTask(cin), cin.now),
                            !.done = @ \cup {"rem"}]
    /\ UNCHANGED <<cin, notCalc>>

\* generator.calculate_next_occurrence(completed_at = now, rule, anchor)
ApplyGenerator ==
    /\ cin.kind = "calc" /\ "gen" \notin cres.done
    /\ cres' = [cres EXCEPT !.gen =
                   calculate_next_occurrence(cin.now, RuleOf(cin), OriginalDue(cin)),
                            !.done = @ \cup {"gen"}]
    /\ UNCHANGED <<cin, notCalc>>

\* ReminderCalculator.should_skip_reminder(task, now)
ApplyGraceGate ==
    /\ cin.kind = "gate" /\ "skip" \notin cres.done
    /\ cres' = [cres EXCEPT !.skip = should_skip_reminder(CalcTask(cin), cin.now),
                            !.done = @ \cup {"skip"}]
    /\ UNCHANGED <<cin, notCalc>>

\* the in-memory filter of TaskReader.get_tasks_needing_reminders applied
\* to one row: _should_process_now(task, now, now + lookahead)
ApplyShouldProcess ==
    /\ cin.kind = "fetch" /\ "proc" \notin cres.done
    /\ cres' = [cres EXCEPT !.proc =
                   should_process_now(CalcTask(cin), cin.now,
                       cin.now + REMINDER_LOOKAHEAD_MINUTES * Minute),
                            !.done = @ \cup {"proc"}]
    /\ UNCHANGED <<cin, notCalc>>

\* both monthly calculators called a second time at the occurrence they
\* returned: the reminder calculator with the returned date as the task's
\* reminder_time (rem2) and with the reminder_time kept (keep2), the
\* generator with the returned date as completion time and due date and
\* the rule unchanged (gen2)
ApplyAgain ==
    /\ cin.kind = "calc" /\ cin.pattern = "monthly"
    /\ {"rem", "gen"} \subseteq cres.done /\ "again" \notin cres.done
    /\ cres.rem # None /\ cres.gen # None
    /\ cres' = [cres EXCEPT
          !.rem2  = calculate_reminder_datetime(
                        [CalcTask(cin) EXCEPT !.reminder_time = cres.rem], cres.rem),
          !.keep2 = calculate_reminder_datetime(CalcTask(cin), cres.rem),
          !.gen2  = calculate_next_occurrence(cres.gen, RuleOf(cin), cres.gen),
          !.done  = @ \cup {"again"}]
    /\ UNCHANGED <<cin, notCalc>>

\* create_task validates the posted rule (routes/tasks.py:279)
ApplyValidator ==
    /\ cin.kind = "rule" /\ "valid" \notin cres.done
    /\ cres' = [cres EXCEPT !.accepted = validate_recurrence_rule(PostedRule(cin)),
                            !.done = @ \cup {"valid"}]
    /\ UNCHANGED <<cin, notCalc>>

\* the generator computes the next occurrence from an accepted rule
ApplyGeneratorToRule ==
    /\ cin.kind = "rule" /\ "valid" \in cres.done /\ cres.accepted
    /\ "gen" \notin cres.done
    /\ cres' = [cres EXCEPT !.gen =
                   calculate_next_occurrence(cin.now, PostedRule(cin), None),
                            !.done = @ \cup {"gen"}]
    /\ UNCHANGED <<cin, notCalc>>

(***************************************************************************)
(* SpecDup: DuplicateChecker.exists against a reminder log that grows.     *)
(***************************************************************************)
MaxLogRows == 2         \* rows in the reminder log of SpecDup

DupTaskIds == {1, 2}
DupBase    == DT(2024, 1, 15, 9 * Hour)
\* occurrence times recorded in the log
DupRowTimes == { DupBase, DupBase + 121, DupBase + SecPerDay }
\* occurrence times asked about: T - 61, T - 60, T, T + 60, T + 61, ...
DupQueryTimes ==
    { DupBase - 61, DupBase - 60, DupBase - 1, DupBase, DupBase + 60,
      DupBase + 61, DupBase + 120, DupBase + SecPerDay + 60 }

DupInit ==
    /\ dlog = {}
    /\ dq = [task_id |-> None, t |-> None, ok |-> TRUE, seen |-> {}, ans |-> FALSE]

\* DeliveryTracker.log_success / log_failure: one more row
DupLogRow ==
    /\ Cardinality(dlog) < MaxLogRows
    /\ \E i \in DupTaskIds, t \in DupRowTimes :
          dlog' = dlog \cup {[task_id |-> i, reminder_datetime |-> t]}
    /\ UNCHANGED <<dq, notDup>>

\* DuplicateChecker.exists(task_id, reminder_datetime)
DupQuery ==
    /\ \E i \in DupTaskIds, t \in DupQueryTimes, ok \in BOOLEAN :
          dq' = [task_id |-> i, t |-> t, ok |-> ok, seen |-> dlog,
                 ans |-> DuplicateChecker_exists(dlog, i, t, ok)]
    /\ UNCHANGED <<dlog, notDup>>

(***************************************************************************)
(* Spec: the polling loop of the reminder agent.                           *)
(*   TaskReader.get_tasks_needing_reminders, ReminderProcessor.run,        *)
(*   DeliveryTracker.log_success / log_failure, _update_agent_state.       *)
(* One cycle is StartCycle, one ProcessTask per fetched task, EndCycle;    *)
(* the scheduler starts a cycle only when none is running.  The clock and  *)
(* the API (which completes tasks) move at any time.                       *)
(***************************************************************************)
MaxCycles == 2          \* cycles started in a behaviour
MaxTicks  == 1          \* clock advances in a behaviour
MaxFaults == 1          \* failures (storage, lookups, sends) in a behaviour

POLLING_INTERVAL_MINUTES == 5

TaskIds == {1, 2}                           \* rows of the tasks table
Now0    == DT(2024, 1, 15, 9 * Hour)        \* a Monday, 09:00:00
TickSteps == { 2 * Minute, SecPerDay }

TaskRow(i, p, rt, due) ==
    [id |-> i, completed |-> FALSE, due_date |-> due, reminder_time |-> rt,
     recurrence_pattern |-> p]

\* the rows a task may start as: every kind for task 1, a one-time
\* reminder two minutes overdue for the others
Profiles(i) ==
    IF i # 1
    THEN { TaskRow(i, "none",  Now0 - 2 * Minute,                  Now0 + SecPerDay) }
    ELSE
    { TaskRow(i, "none",    Now0 - 2 * Minute,              Now0 + SecPerDay),
      TaskRow(i, "none",    Now0 - 4 * Minute,              None),
      TaskRow(i, "none",    Now0 + 2 * Minute,              None),
      TaskRow(i, "none",    None,                           None),
      TaskRow(i, "daily",   DT(2024, 1, 10, 9 * Hour + Minute), Now0 + SecPerDay),
      TaskRow(i, "daily",   DT(2024, 1, 10, 9 * Hour + Minute), Now0 - 8 * SecPerDay),
      TaskRow(i, "weekly",  DT(2024, 1, 8,  9 * Hour + Minute), None),
      TaskRow(i, "monthly", DT(2024, 1, 15, 9 * Hour + Minute), None) }

\* the SQL WHERE clause of TaskReader.get_tasks_needing_reminders, without
\* the test on completed
CoarseFilter_Mut(row) == row.reminder_time # None

\* the SQL WHERE clause of TaskReader.get_tasks_needing_reminders
CoarseFilter(row) == ~row.completed /\ row.reminder_time # None

\* TaskReader.get_tasks_needing_reminders(); ok = FALSE: the session raised
\* and the except branch returns [].  Rows are listed in id order.
get_tasks_needing_reminders(table, t, ok) ==
    IF ~ok THEN <<>>
    ELSE LET lookahead == t + REMINDER_LOOKAHEAD_MINUTES * Minute
             keep(row) == CoarseFilter(row) /\ should_process_now(row, t, lookahead)
         IN  SelectSeq([i \in TaskIds |-> table[i]], keep)

\* ReminderProcessor._update_agent_state; ok = FALSE: the session raised
\* and the except branch only logs
update_agent_state(rows, status, tp, rs, ec, t, ok) ==
    IF ~ok THEN rows
    ELSE IF rows = <<>>
    THEN <<[last_check_at |-> t, status |-> status, tasks_processed |-> 0,
            reminders_sent |-> 0, errors_count |-> 0]>>
    ELSE [rows EXCEPT ![1] =
             [last_check_at   |-> t, status |-> status,
              tasks_processed |-> @.tasks_processed + tp,
              reminders_sent  |-> @.reminders_sent + rs,
              errors_count    |-> @.errors_count + ec]]

\* a delivery tracker whose log_failure writes nothing
DeliveryTracker_log_Mut(log, task_id, reminder_datetime, status, ok) ==
    IF ok /\ status = "sent"
    THEN log \cup {[task_id |-> task_id, reminder_datetime |-> reminder_datetime,
                    delivery_status |-> status]}
    ELSE log

\* DeliveryTracker.log_success / log_failure; ok = FALSE: the session raised
\* and the except branch only logs
DeliveryTracker_log(log, task_id, reminder_datetime, status, ok) ==
    IF ok
    THEN log \cup {[task_id |-> task_id, reminder_datetime |-> reminder_datetime,
                    delivery_status |-> status]}
    ELSE log

\* where an exception may leave the try block of the loop body: the gate,
\* the calculator, the email generation, or EmailSender.send re-raising
\* aiosmtplib.SMTPException once its retries are used up
Exceptions == {"none", "gate", "calc", "generate", "send"}

NoResult ==
    [code |-> "error", rdt |-> None, looked |-> FALSE, sent |-> FALSE,
     outcome |-> "none", status |-> "none"]

\* the result once the duplicate check has been made for occurrence rdt
Looked(rdt) == [NoResult EXCEPT !.rdt = rdt, !.looked = TRUE]

\* the body of the for loop of ReminderProcessor.run for one task, given the
\* occurrence rdt that the calculator returns:
\*   exc       where an exception is raised, if anywhere
\*   lookup_ok whether the reminder_log lookup works
\*   mail      whether TaskReader.get_user_email finds an address
\*   result    what EmailSender.send returns when it does not raise
LoopBody(task, t, log, rdt, exc, lookup_ok, mail, result) ==
    IF exc = "gate" THEN NoResult
    ELSE IF should_skip_reminder(task, t) THEN [NoResult EXCEPT !.code = "skipped"]
    ELSE IF exc = "calc" THEN NoResult
    ELSE IF rdt = None THEN [NoResult EXCEPT !.code = "no_datetime"]
    ELSE IF DuplicateChecker_exists(log, task.id, rdt, lookup_ok)
         THEN [Looked(rdt) EXCEPT !.code = "duplicate"]
    ELSE IF ~mail THEN [Looked(rdt) EXCEPT !.code = "no_email"]
    ELSE IF exc = "generate" THEN Looked(rdt)
    ELSE IF exc = "send"
         THEN [Looked(rdt) EXCEPT !.sent = TRUE, !.outcome = "raised"]
    ELSE IF result
         THEN [Looked(rdt) EXCEPT !.code = "sent", !.sent = TRUE, !.outcome = "ok",
                                  !.status = "sent"]
         ELSE [Looked(rdt) EXCEPT !.code = "failed", !.sent = TRUE,
                                  !.outcome = "false", !.status = "failed"]

ProcessOne(task, t, log, exc, lookup_ok, mail, result) ==
    LoopBody(task, t, log, calculate_reminder_datetime(task, t), exc, lookup_ok,
             mail, result)

\* counters that forget to count an exception caught by the loop
CountAfter_Mut(c, code) ==
    [tasks_processed |-> c.tasks_processed + 1,
     reminders_sent  |-> c.reminders_sent + (IF code = "sent" THEN 1 ELSE 0),
     errors_count    |-> c.errors_count + (IF code = "failed" THEN 1 ELSE 0)]

\* tasks_processed += 1, reminders_sent += 1, errors_count += 1 of the loop
CountAfter(c, code) ==
    [tasks_processed |-> c.tasks_processed + 1,
     reminders_sent  |-> c.reminders_sent + (IF code = "sent" THEN 1 ELSE 0),
     errors_count    |-> c.errors_count + (IF code \in {"failed", "error"} THEN 1 ELSE 0)]

ZeroCount == [tasks_processed |-> 0, reminders_sent |-> 0, errors_count |-> 0]

\* an injected failure counts one
Failed(ok) == IF ok THEN 0 ELSE 1

\* the heartbeat before any update
NoHeartbeat ==
    [last_check_at |-> None, status |-> "none", tasks_processed |-> 0,
     reminders_sent |-> 0, errors_count |-> 0]

\* the arguments of _update_agent_state as its docstring reads them: the
\* counts of this cycle, added to the cumulative counters by every update
\* that succeeds
Accumulated(row, status, tp, rs, ec, t, ok) ==
    IF ~ok THEN row
    ELSE [last_check_at   |-> t, status |-> status,
          tasks_processed |-> row.tasks_processed + tp,
          reminders_sent  |-> row.reminders_sent + rs,
          errors_count    |-> row.errors_count + ec]

\* APScheduler's add_job default: one running instance per job
max_instances == 1

\* a scheduler that submits the job however many instances are running
SchedulerAdmits_Mut(running) == TRUE

\* BaseScheduler: a due job is submitted unless max_instances are running
SchedulerAdmits(running) == running < max_instances

\* an exception that escapes the outer try of run and ends the process
CriticalBranch_Mut(rows, t, ok) == [agent |-> rows, pc |-> "crashed"]

\* except Exception of run: log critical, heartbeat with status error
CriticalBranch(rows, t, ok) ==
    [agent |-> update_agent_state(rows, "error", 0, 0, 1, t, ok), pc |-> "idle"]

CycleInit ==
    /\ now = Now0
    /\ db \in {f \in [TaskIds -> UNION {Profiles(i) : i \in TaskIds}] :
                  \A i \in TaskIds : f[i] \in Profiles(i)}
    /\ rlog = {}
    /\ agent = <<>>
    /\ pc = "idle"
    /\ tasks = <<>>
    /\ idx = 1
    /\ cnt = ZeroCount
    /\ cycle = 0
    /\ trace = <<>>
    /\ sends = {}
    /\ ticks = 0
    /\ nfail = 0
    /\ fault = FALSE
    /\ active = 0
    /\ hb = NoHeartbeat
    /\ last_end = "none"

\* ReminderProcessor.run up to the for loop: heartbeat, then fetch
StartCycle ==
    /\ SchedulerAdmits(active) /\ pc # "crashed" /\ cycle < MaxCycles
    /\ active' = active + 1
    /\ \E state_ok \in BOOLEAN, fetch_ok \in BOOLEAN :
          /\ agent' = update_agent_state(agent, "running", 0, 0, 0, now, state_ok)
          /\ hb' = Accumulated(hb, "running", 0, 0, 0, now, state_ok)
          /\ tasks' = get_tasks_needing_reminders(db, now, fetch_ok)
          /\ nfail' = nfail + Failed(state_ok) + Failed(fetch_ok)
          /\ nfail' <= MaxFaults
    /\ pc' = "running"
    /\ idx' = 1
    /\ cnt' = ZeroCount
    /\ trace' = <<>>
    /\ cycle' = cycle + 1
    /\ UNCHANGED <<now, db, rlog, sends, ticks, fault, last_end, notCycle>>

\* the trigger fires while the job is running: the run is skipped (the
\* scheduler logs a warning and nothing else changes)
SkipCycle ==
    /\ ~SchedulerAdmits(active) /\ pc = "running"
    /\ UNCHANGED vars

\* an input the iteration never consults is left at its default
Consulted(r, exc, lookup_ok, mail, result, write_ok) ==
    /\ exc # "none" => r.code = "error"
    /\ ~lookup_ok => r.looked
    /\ ~mail => r.code = "no_email"
    /\ ~result => r.code = "failed"
    /\ ~write_ok => r.status # "none"

\* what one iteration leaves behind: counters, log row, histories
Commit(task, r, lookup_ok, write_ok) ==
    /\ cnt' = CountAfter(cnt, r.code)
    /\ rlog' = IF r.status # "none"
               THEN DeliveryTracker_log(rlog, task.id, r.rdt, r.status, write_ok)
               ELSE rlog
    /\ sends' = IF r.sent
                THEN sends \cup {[task_id |-> task.id, rdt |-> r.rdt, cycle |-> cycle,
                                  completed |-> task.completed, outcome |-> r.outcome]}
                ELSE sends
    /\ trace' = Append(trace, [code |-> r.code, rdt |-> r.rdt,
                                lookup_ok |-> lookup_ok,
                                absorbed |-> ~lookup_ok \/ ~write_ok])
    /\ fault' = (fault \/ ~lookup_ok \/ ~write_ok)

\* one iteration of the for loop
ProcessTask ==
    /\ pc = "running" /\ idx <= Len(tasks)
    /\ \E exc \in Exceptions, lookup_ok \in BOOLEAN, mail \in BOOLEAN,
          result \in BOOLEAN, write_ok \in BOOLEAN :
          /\ nfail' = nfail + (IF exc = "none" THEN 0 ELSE 1) + Failed(lookup_ok)
                            + Failed(mail) + Failed(result) + Failed(write_ok)
          /\ nfail' <= MaxFaults
          /\ Consulted(ProcessOne(tasks[idx], now, rlog, exc, lookup_ok, mail, result),
                       exc, lookup_ok, mail, result, write_ok)
          /\ Commit(tasks[idx],
                    ProcessOne(tasks[idx], now, rlog, exc, lookup_ok, mail, result),
                    lookup_ok, write_ok)
    /\ idx' = idx + 1
    /\ UNCHANGED <<now, db, agent, pc, tasks, cycle, ticks, active, hb, last_end,
                   notCycle>>

\* ReminderProcessor.run after the for loop: heartbeat with the counts
EndCycle ==
    /\ pc = "running" /\ idx > Len(tasks)
    /\ \E state_ok \in BOOLEAN :
          /\ agent' = update_agent_state(agent, "running", cnt.tasks_processed,
                                         cnt.reminders_sent, cnt.errors_count, now,
                                         state_ok)
          /\ hb' = Accumulated(hb, "running", cnt.tasks_processed, cnt.reminders_sent,
                               cnt.errors_count, now, state_ok)
          /\ nfail' = nfail + Failed(state_ok)
          /\ nfail' <= MaxFaults
    \* run returns: its locals are gone
    /\ pc' = "idle" /\ tasks' = <<>> /\ idx' = 1 /\ cnt' = ZeroCount /\ trace' = <<>>
    /\ active' = active - 1 /\ last_end' = "normal"
    /\ UNCHANGED <<now, db, rlog, cycle, sends, ticks, fault, notCycle>>

\* ReminderProcessor.run, outer except: something outside the per-task try
\* raised (state_ok: whether the error heartbeat can be written)
CriticalError ==
    /\ pc = "running"
    /\ \E state_ok \in BOOLEAN :
          /\ agent' = CriticalBranch(agent, now, state_ok).agent
          /\ pc' = CriticalBranch(agent, now, state_ok).pc
          /\ hb' = Accumulated(hb, "error", 0, 0, 1, now, state_ok)
          /\ nfail' = nfail + 1 + Failed(state_ok)
          /\ nfail' <= MaxFaults
    /\ tasks' = <<>> /\ idx' = 1 /\ cnt' = ZeroCount /\ trace' = <<>>
    /\ active' = active - 1 /\ last_end' = "error"
    /\ UNCHANGED <<now, db, rlog, cycle, sends, ticks, fault, notCycle>>

\* time passes
Tick ==
    /\ ticks < MaxTicks
    /\ \E step \in TickSteps : now' = now + step
    /\ ticks' = ticks + 1
    /\ UNCHANGED <<db, rlog, agent, pc, tasks, idx, cnt, cycle, trace, sends, nfail,
                   fault, active, hb, last_end, notCycle>>

\* the API marks a task completed
CompleteTask ==
    /\ \E i \in TaskIds :
          /\ ~db[i].completed
          /\ db' = [db EXCEPT ![i].completed = TRUE]
    /\ UNCHANGED <<now, rlog, agent, pc, tasks, idx, cnt, cycle, trace, sends, ticks,
                   nfail, fault, active, hb, last_end, notCycle>>

(***************************************************************************)
(* SpecLive: the polling loop on schedule.  The scheduler fires the job    *)
(* every POLLING_INTERVAL_MINUTES, storage and mail work, and the tasks    *)
(* are one-time reminders around the first firing after their creation.    *)
(* Between the fetch and the loop body some time may pass.                 *)
(***************************************************************************)
\* reminder_time relative to the first firing
LiveOffsets ==
    { 0 - OverdueGrace, 0 - 4 * Minute, 0, REMINDER_LOOKAHEAD_MINUTES * Minute - 1,
      REMINDER_LOOKAHEAD_MINUTES * Minute, 8 * Minute }

\* time the awaits of a cycle may take before a task is evaluated
LiveDelayStep == 2 * Minute

\* the k-th firing of the IntervalTrigger (k = 0: the first)
Firing(k) == Now0 + k * POLLING_INTERVAL_MINUTES * Minute

LiveInit ==
    /\ now = Now0
    /\ db \in {f \in [TaskIds -> UNION {{TaskRow(i, "none", Now0 + o, None) :
                                            o \in LiveOffsets} : i \in TaskIds}] :
                  /\ \A i \in TaskIds : f[i].id = i
                  /\ \A i \in TaskIds : i # 1 => f[i].reminder_time = Now0}
    /\ rlog = {} /\ agent = <<>> /\ pc = "idle" /\ tasks = <<>> /\ idx = 1
    /\ cnt = ZeroCount /\ cycle = 0 /\ trace = <<>> /\ sends = {} /\ ticks = 0
    /\ nfail = 0 /\ fault = FALSE /\ active = 0 /\ hb = NoHeartbeat
    /\ last_end = "none"

\* the trigger fires on time and nothing fails
LiveStart == now = Firing(cycle) /\ StartCycle /\ nfail' = nfail

\* the awaits of the cycle take time before the loop body reads the clock
LiveDelay ==
    /\ pc = "running" /\ idx = 1 /\ now = Firing(cycle - 1)
    /\ now' = now + LiveDelayStep
    /\ UNCHANGED <<db, rlog, agent, pc, tasks, idx, cnt, cycle, trace, sends, ticks,
                   nfail, fault, active, hb, last_end, notCycle>>

LiveProcess == ProcessTask /\ nfail' = nfail

LiveEnd == EndCycle /\ nfail' = nfail

\* the scheduler sleeps until the next firing
LiveSleep ==
    /\ pc = "idle" /\ cycle >= 1 /\ cycle < MaxCycles /\ now < Firing(cycle)
    /\ now' = Firing(cycle)
    /\ UNCHANGED <<db, rlog, agent, pc, tasks, idx, cnt, cycle, trace, sends, ticks,
                   nfail, fault, active, hb, last_end, notCycle>>

(***************************************************************************)
(* SpecEvent: the recurring-task service.  handle_task_event is three      *)
(* steps, each ending at an await on the Dapr sidecar: the filters, the    *)
(* idempotency read and the calculation; the publish; the idempotency      *)
(* write.  The transport redelivers an event any number of times.          *)
(***************************************************************************)
MaxDeliveries == 3      \* deliveries of one event

EventIds   == {1, 2, 3, 4}
HandlerIds == {1, 2}
EventNow   == DT(2024, 1, 17, 10 * Hour)        \* datetime.utcnow()

DailyRule  == [frequency |-> "daily", interval |-> 1, days_of_week |-> {},
               day_of_month |-> None]
\* a weekly rule without days_of_week: no next occurrence can be computed
EmptyWeekly == [frequency |-> "weekly", interval |-> 1, days_of_week |-> {},
                day_of_month |-> None]
NoRule     == [frequency |-> "", interval |-> 1, days_of_week |-> {},
               day_of_month |-> None]

\* the events on the topic: event_type, task_data.recurrence_rule (NoRule:
\* absent), task_data.due_date
EventOf(e) ==
    IF e = 1 THEN [event_type |-> "task.completed", recurrence_rule |-> DailyRule,
                   due_date |-> DT(2024, 1, 17, 9 * Hour)]
    ELSE IF e = 2 THEN [event_type |-> "task.completed", recurrence_rule |-> NoRule,
                        due_date |-> None]
    ELSE IF e = 3 THEN [event_type |-> "task.updated", recurrence_rule |-> DailyRule,
                        due_date |-> DT(2024, 1, 17, 9 * Hour)]
    ELSE [event_type |-> "task.completed", recurrence_rule |-> EmptyWeekly,
          due_date |-> None]

IdleHandler == [pc |-> "idle", event |-> None, delivery |-> 0, next_due |-> None]

\* DaprClient.get_state(key); ok = FALSE: the request failed and the except
\* branch returns None
get_state(store, key, ok) == IF ok THEN key \in store ELSE FALSE

\* DaprClient.save_state(key, value); ok = FALSE: the request failed and
\* the except branch returns False (which the handler does not read)
save_state(store, key, ok) == IF ok THEN store \cup {key} ELSE store

\* handle_task_event going on to the publish although no next occurrence
\* could be computed
FirstStep_Mut(ev, already_processed, next_due_date) ==
    IF ev.event_type # "task.completed" THEN "DROP"
    ELSE IF ev.recurrence_rule = NoRule THEN "DROP"
    ELSE IF already_processed THEN "SUCCESS"
    ELSE "publish"

\* handle_task_event up to the publish: the status it returns at once, or
\* "publish" when it goes on
FirstStep(ev, already_processed, next_due_date) ==
    IF ev.event_type # "task.completed" THEN "DROP"
    ELSE IF ev.recurrence_rule = NoRule THEN "DROP"
    ELSE IF already_processed THEN "SUCCESS"
    ELSE IF next_due_date = None THEN "DROP"
    ELSE "publish"

EventInit ==
    /\ estore = {}
    /\ epub = [e \in EventIds |-> 0]
    /\ eh = [h \in HandlerIds |-> IdleHandler]
    /\ edeliv = [e \in EventIds |-> 0]
    /\ eret = {}
    /\ efault = FALSE

Returned(e, k, status) == [event |-> e, delivery |-> k, status |-> status]

\* a delivery arrives: filters, idempotency read, next occurrence
HandleReceive(h, sequential) ==
    /\ eh[h].pc = "idle"
    /\ \A g \in HandlerIds : g < h => eh[g].pc # "idle"
    /\ sequential => \A g \in HandlerIds : eh[g].pc = "idle"
    /\ \E e \in EventIds, read_ok \in BOOLEAN :
          LET ev   == EventOf(e)
              k    == edeliv[e] + 1
              reads == ev.event_type = "task.completed" /\ ev.recurrence_rule # NoRule
              already == get_state(estore, e, read_ok)
              next == calculate_next_occurrence(EventNow, ev.recurrence_rule, ev.due_date)
              st   == FirstStep(ev, already, next)
          IN  /\ edeliv[e] < MaxDeliveries
              /\ edeliv' = [edeliv EXCEPT ![e] = k]
              /\ efault' = (efault \/ (reads /\ ~read_ok))
              /\ IF st = "publish"
                 THEN /\ eh' = [eh EXCEPT ![h] = [pc |-> "publish", event |-> e,
                                                  delivery |-> k, next_due |-> next]]
                      /\ eret' = eret
                 ELSE /\ eh' = eh
                      /\ eret' = eret \cup {Returned(e, k, st)}
    /\ UNCHANGED <<estore, epub, notEvent>>

\* dapr_client.publish_task_event("task.created", ...)
HandlePublish(h) ==
    /\ eh[h].pc = "publish"
    /\ \E success \in BOOLEAN :
          IF success
          THEN /\ epub' = [epub EXCEPT ![eh[h].event] = @ + 1]
               /\ eh' = [eh EXCEPT ![h].pc = "save"]
               /\ eret' = eret
          ELSE /\ epub' = epub
               /\ eh' = [eh EXCEPT ![h] = IdleHandler]
               /\ eret' = eret \cup {Returned(eh[h].event, eh[h].delivery, "RETRY")}
    /\ UNCHANGED <<estore, edeliv, efault, notEvent>>

\* dapr_client.save_state(idempotency_key, ...), then return SUCCESS
HandleSave(h) ==
    /\ eh[h].pc = "save"
    /\ \E ok \in BOOLEAN : estore' = save_state(estore, eh[h].event, ok)
    /\ eh' = [eh EXCEPT ![h] = IdleHandler]
    /\ eret' = eret \cup {Returned(eh[h].event, eh[h].delivery, "SUCCESS")}
    /\ UNCHANGED <<epub, edeliv, efault, notEvent>>

\* deliveries handled one after another
Receive == \E h \in HandlerIds : HandleReceive(h, TRUE)
Publish == \E h \in HandlerIds : HandlePublish(h)
Save    == \E h \in HandlerIds : HandleSave(h)
EventNext == Receive \/ Publish \/ Save

\* deliveries handled concurrently: a delivery may arrive while another
\* handling is suspended at one of its awaits
ReceiveConcurrent == \E h \in HandlerIds : HandleReceive(h, FALSE)
EventNextConcurrent == ReceiveConcurrent \/ Publish \/ Save

(***************************************************************************)
(* SpecApi: the completion toggle of the API service (routes/tasks.py).    *)
(* A row is [due_date, reminder_time, recurrence_pattern, completed] and   *)
(* the history field origin: the row whose completion created it.  The     *)
(* best-effort event publishing of toggle_complete changes no table.       *)
(***************************************************************************)
MaxToggles == 3         \* toggle_complete calls in a behaviour

ApiDueDates == { None, DT(2024, 1, 15, 9 * Hour), DT(2024, 1, 31, 9 * Hour) }
ApiReminderOffsets == { None, Hour }

ApiRow(p, due, rt) ==
    [due_date |-> due, reminder_time |-> rt, recurrence_pattern |-> p,
     completed |-> FALSE, origin |-> None]

ApiRows ==
    { ApiRow(p, due, IF off = None THEN None
                     ELSE IF due = None THEN DT(2024, 1, 15, 8 * Hour)
                     ELSE due - off) :
        p \in Patterns, due \in ApiDueDates, off \in ApiReminderOffsets }

\* completed_task.due_date advanced by the pattern's step; relativedelta
\* clamps the day
NextDue(task) ==
    IF task.recurrence_pattern = "daily" THEN task.due_date + SecPerDay
    ELSE IF task.recurrence_pattern = "weekly" THEN task.due_date + 7 * SecPerDay
    ELSE IF task.recurrence_pattern = "monthly"
         THEN Combine(AddMonths(DateOf(task.due_date), 1), TimeOf(task.due_date))
    ELSE None

\* create_recurring_instance(completed_task, session): the rows it adds
create_recurring_instance(completed_task, id) ==
    IF completed_task.due_date = None THEN <<>>
    ELSE IF NextDue(completed_task) = None THEN <<>>
    ELSE LET next_due == NextDue(completed_task)
             next_reminder ==
                 IF completed_task.reminder_time # None
                 THEN next_due - (completed_task.due_date - completed_task.reminder_time)
                 ELSE None
         IN  << [due_date |-> next_due, reminder_time |-> next_reminder,
                 recurrence_pattern |-> completed_task.recurrence_pattern,
                 completed |-> FALSE, origin |-> id] >>

ApiInit ==
    /\ atasks \in {<<r>> : r \in ApiRows}
    /\ acalls = 0

\* PATCH /api/{user_id}/tasks/{id}/complete on an existing task
ToggleComplete ==
    /\ acalls < MaxToggles
    /\ \E id \in 1..Len(atasks) :
          LET task == [atasks[id] EXCEPT !.completed = ~@]
          IN  atasks' =
                  [atasks EXCEPT ![id] = task] \o
                  (IF task.completed /\ task.recurrence_pattern # "none"
                   THEN create_recurring_instance(task, id) ELSE <<>>)
    /\ acalls' = acalls + 1
    /\ UNCHANGED notApi

ApiAtRest == atasks = <<>> /\ acalls = 0

(***************************************************************************)
(* The specifications.  Each one leaves the other parts at rest: the       *)
(* variables of the parts it does not run keep the values given here.      *)
(***************************************************************************)
AtRest(calc, dup, cyc, event) ==
    /\ calc  => cin = None /\ cres = None
    /\ dup   => dlog = {} /\ dq = None
    /\ cyc   => /\ now = Now0 /\ db = <<>> /\ rlog = {} /\ agent = <<>> /\ pc = "off"
                /\ tasks = <<>> /\ idx = 1 /\ cnt = ZeroCount /\ cycle = 0
                /\ trace = <<>> /\ sends = {} /\ ticks = 0 /\ nfail = 0
                /\ fault = FALSE /\ active = 0
                /\ hb = NoHeartbeat /\ last_end = "none"
    /\ event => /\ estore = {} /\ epub = <<>> /\ eh = <<>> /\ edeliv = <<>>
                /\ eret = {} /\ efault = FALSE

Init == AtRest(TRUE, TRUE, FALSE, TRUE) /\ ApiAtRest /\ CycleInit
Next ==
    StartCycle \/ SkipCycle \/ ProcessTask \/ EndCycle \/ CriticalError \/ Tick
        \/ CompleteTask
Spec == Init /\ [][Next]_vars

InitLive == AtRest(TRUE, TRUE, FALSE, TRUE) /\ ApiAtRest /\ LiveInit
NextLive == LiveStart \/ LiveDelay \/ LiveProcess \/ LiveEnd \/ LiveSleep
\* the scheduler keeps firing and a started run goes on to its end
SpecLive ==
    /\ InitLive /\ [][NextLive]_vars
    /\ WF_vars(LiveStart) /\ WF_vars(LiveProcess) /\ WF_vars(LiveEnd)
    /\ WF_vars(LiveSleep)

InitCalc == AtRest(FALSE, TRUE, TRUE, TRUE) /\ ApiAtRest /\ CalcInit
NextCalc ==
    ApplyReminderCalculator \/ ApplyGenerator \/ ApplyGraceGate \/ ApplyShouldProcess
        \/ ApplyAgain \/ ApplyValidator \/ ApplyGeneratorToRule
SpecCalc == InitCalc /\ [][NextCalc]_vars

InitDup == AtRest(TRUE, FALSE, TRUE, TRUE) /\ ApiAtRest /\ DupInit
NextDup == DupLogRow \/ DupQuery
SpecDup == InitDup /\ [][NextDup]_vars

InitEvent == AtRest(TRUE, TRUE, TRUE, FALSE) /\ ApiAtRest /\ EventInit
SpecEvent == InitEvent /\ [][EventNext]_vars
SpecEventConcurrent == InitEvent /\ [][EventNextConcurrent]_vars

InitApi == AtRest(TRUE, TRUE, TRUE, TRUE) /\ ApiInit
NextApi == ToggleComplete
SpecApi == InitApi /\ [][NextApi]_vars

(***************************************************************************)
(* Properties of the polling loop (Spec).                                  *)
(***************************************************************************)
\* codes of an iteration that the loop counts as an error
ErrorCodes == {"error", "failed"}

\* send events of an earlier cycle for the occurrence that iteration i of the
\* running cycle looked up
EarlierSends(i) ==
    {s \in sends : s.task_id = tasks[i].id /\ s.rdt = trace[i].rdt /\ s.cycle < cycle}

\* C1: while the reminder log can be read and written, EmailSender.send is
\* invoked at most once per (task, computed occurrence timestamp): any two
\* invocations for the same task and occurrence belong to the same cycle.
C1_AtMostOneSendPerOccurrence ==
    ~fault =>
        \A a \in sends : \A b \in sends :
            (a.task_id = b.task_id /\ a.rdt = b.rdt) => a.cycle = b.cycle

\* C3: while the reminder log can be written, every invocation of the send,
\* whether it returned success, returned failure or raised after its
\* retries, has an occurrence record (task_id, occurrence, sent or failed).
C3_EverySendRecorded ==
    ~fault =>
        \A s \in sends :
            \E r \in rlog : /\ r.task_id = s.task_id
                            /\ r.reminder_datetime = s.rdt
                            /\ r.delivery_status \in {"sent", "failed"}

\* C4 as amended: while the reminder log can be read and written, a failed
\* send is counted in the cycle's error tally; once a send has returned
\* failure the occurrence is found recorded in every later cycle and is
\* skipped as a duplicate, and an occurrence is sent again in a later cycle
\* only when the earlier send raised (which leaves no record).
C4_FailedSendBlocksRetry ==
    ~fault =>
        /\ \A a \in sends : \A b \in sends :
               (a.task_id = b.task_id /\ a.rdt = b.rdt /\ a.cycle < b.cycle)
                   => a.outcome = "raised"
        /\ \A i \in 1..Len(trace) :
               /\ (\E s \in EarlierSends(i) : s.outcome = "false")
                      => trace[i].code = "duplicate"
               /\ (\E s \in sends : /\ s.task_id = tasks[i].id /\ s.cycle = cycle
                                    /\ s.outcome # "ok")
                      => trace[i].code \in ErrorCodes
        /\ cnt.errors_count
               >= Cardinality({s \in sends : s.cycle = cycle /\ s.outcome # "ok"
                                             /\ pc = "running"})

\* a send returned failure in an earlier cycle and this cycle has looked the
\* same occurrence up and skipped it as a duplicate
C4_Witness ==
    /\ ~fault /\ pc = "running"
    /\ \E i \in 1..Len(trace) :
          /\ trace[i].code = "duplicate"
          /\ \E s \in EarlierSends(i) : s.outcome = "false"

\* C4 as stated: an occurrence whose send failed stays eligible, so a
\* candidate is skipped as a duplicate only when it has been sent
\* successfully before.
C4_FailedStaysEligible ==
    ~fault =>
        \A i \in 1..Len(trace) :
            trace[i].code = "duplicate"
                => \E s \in sends : /\ s.task_id = tasks[i].id
                                    /\ s.rdt - trace[i].rdt <= 60
                                    /\ trace[i].rdt - s.rdt <= 60
                                    /\ s.outcome = "ok"

C9_CompletedNeverFires ==
    /\ \A i \in 1..Len(tasks) : ~tasks[i].completed
    /\ \A s \in sends : ~s.completed
    /\ \A r \in rlog :
           \E s \in sends : /\ s.task_id = r.task_id /\ s.rdt = r.reminder_datetime
                            /\ ~s.completed
    /\ \A i \in TaskIds : should_skip_reminder([db[i] EXCEPT !.completed = TRUE], now)

\* task 1, a daily reminder, was completed before the running cycle fetched:
\* the cycle got its candidates without it and has processed them all
C9_Witness ==
    /\ pc = "running" /\ db[1].completed /\ db[1].recurrence_pattern = "daily"
    /\ tasks # <<>> /\ idx > Len(tasks)
    /\ \A i \in 1..Len(tasks) : tasks[i].id # 1
    /\ \A s \in sends : s.task_id # 1

\* C11: an iteration whose reminder_log lookup failed is never skipped as a
\* duplicate, whatever the log holds: DuplicateChecker.exists answers "not
\* yet fired" without raising, and the iteration goes on to the contact
\* lookup, the generation and the send, so that an iteration that ended sent
\* or failed has invoked the send for its occurrence in this cycle.
C11_LookupFailureFailsOpen ==
    \A i \in 1..Len(trace) :
        ~trace[i].lookup_ok =>
            /\ trace[i].code \in {"no_email", "error", "sent", "failed"}
            /\ trace[i].rdt # None
            /\ trace[i].code \in {"sent", "failed"} =>
                   \E s \in sends : /\ s.task_id = tasks[i].id /\ s.cycle = cycle
                                     /\ s.rdt = trace[i].rdt

\* the occurrence was sent and recorded in an earlier cycle; in this cycle
\* the lookup failed and the occurrence was sent again
C11_Witness ==
    \E i \in 1..Len(trace) :
        /\ ~trace[i].lookup_ok /\ trace[i].code = "sent"
        /\ \E s \in EarlierSends(i) : s.outcome = "ok"
        /\ \E r \in rlog : /\ r.task_id = tasks[i].id
                            /\ r.reminder_datetime = trace[i].rdt

C13_RunNeverPropagates ==
    [][ /\ pc' \in {"idle", "running"}
        /\ (pc = "running" /\ pc' # "running") => (pc' = "idle" /\ active' = 0)
        /\ cycle' # cycle =>
               /\ pc' = "running"
               /\ agent' # agent =>
                      (agent'[1].status = "running" /\ agent'[1].last_check_at = now)
               /\ nfail' = nfail => hb'.status = "running" ]_vars

\* the previous run took the outer except branch and left status error; the
\* next cycle has started, set the status back to running and is processing
C13_Witness ==
    /\ pc = "running" /\ last_end = "error" /\ cycle > 1
    /\ agent # <<>> /\ agent[1].status = "running" /\ agent[1].errors_count = 1
    /\ Len(trace) > 0

\* C14: there is at most one heartbeat row, and it holds what the updates
\* that succeeded add up to: last_check_at of the latest update and, in each
\* cumulative counter, the sum of the counts the cycles reported.
C14_HeartbeatAccumulates ==
    /\ Len(agent) <= 1
    /\ agent # <<>> =>
           /\ agent[1].last_check_at = hb.last_check_at
           /\ agent[1].tasks_processed = hb.tasks_processed
           /\ agent[1].reminders_sent = hb.reminders_sent
           /\ agent[1].errors_count = hb.errors_count

(***************************************************************************)
(* Properties of the recurring-task service (SpecEvent).                   *)
(***************************************************************************)
\* C2: while the idempotency key can be read, deliveries of one event_id
\* handled one after another publish at most one task.created.
C2_AtMostOnePublish ==
    ~efault => \A e \in EventIds : epub[e] <= 1

(***************************************************************************)
(* Properties of the calculators and the grace gate (SpecCalc).            *)
(***************************************************************************)
BothApplied == cin.kind = "calc" /\ {"rem", "gen"} \subseteq cres.done

\* C6: a result of ReminderCalculator.calculate_reminder_datetime is never
\* earlier than now minus the five minutes of grace, and never earlier than
\* now for daily, weekly and monthly; a result of
\* generator.calculate_next_occurrence is never earlier than completed_at.
C6_NeverInThePast ==
    cin.kind = "calc" =>
        /\ ("rem" \in cres.done /\ cres.rem # None)
               => /\ cres.rem >= cin.now - 5 * 60
                  /\ cin.pattern # "none" => cres.rem >= cin.now
        /\ ("gen" \in cres.done /\ cres.gen # None) => cres.gen >= cin.now

\* both calculators were applied to a one-time reminder that is overdue but
\* within the grace, or to a recurring one, and returned a timestamp
C6_Witness ==
    /\ BothApplied /\ cres.rem # None
    /\ \/ cin.pattern = "none" /\ cres.rem < cin.now
       \/ cin.pattern = "monthly" /\ cres.gen # None /\ cin.interval > 1

\* the rules both calculators can express: interval 1, the weekday and the
\* day of month of the anchor, the time of day of the anchor
Expressible ==
    /\ BothApplied
    /\ cin.pattern \in {"daily", "weekly", "monthly"}
    /\ cin.interval = 1 /\ cin.dow = {} /\ cin.dom = None /\ cin.use_due

\* the reminder calculator's answer lies in the day (daily, weekly) or in
\* the month (monthly) of the reference time
InCurrentPeriod ==
    IF cin.pattern = "monthly"
    THEN /\ YMD(DateOf(cres.rem)).y = YMD(DateOf(cin.now)).y
         /\ YMD(DateOf(cres.rem)).m = YMD(DateOf(cin.now)).m
    ELSE DateOf(cres.rem) = DateOf(cin.now)

\* C7 as amended: for a rule expressible in both, the two calculators return
\* the same timestamp exactly when the reminder calculator's answer lies
\* outside the current day (daily, weekly) or month (monthly) of the
\* reference time; when the current period's occurrence is still ahead, the
\* reminder calculator returns it and the generator returns a later one.
C7_AgreeOutsideCurrentPeriod ==
    Expressible =>
        /\ cres.rem # None /\ cres.gen # None
        /\ (cres.rem = cres.gen) <=> ~InCurrentPeriod
        /\ InCurrentPeriod => cres.rem < cres.gen /\ cres.rem > cin.now

\* both calculators were applied to an expressible weekly rule and differ
C7_Witness ==
    Expressible /\ cin.pattern = "weekly" /\ InCurrentPeriod /\ cres.rem < cres.gen

\* C7 as stated: for a rule expressible in both, the two calculators return
\* the same timestamp.
C7_SameTimestamp ==
    Expressible => cres.rem = cres.gen

\* C8: should_skip_reminder excludes a not-completed task exactly when
\* now - due_date exceeds 7 days.
C8_ExcludedBeyondGrace ==
    (cin.kind = "gate" /\ "skip" \in cres.done /\ ~cin.completed) =>
        (cres.skip <=> (cin.due_date # None /\ cin.now - cin.due_date > 7 * SecPerDay))

(***************************************************************************)
(* Properties of the duplicate check (SpecDup).                            *)
(***************************************************************************)
\* C10: when the lookup works, DuplicateChecker.exists(task_id, t) answers
\* true exactly when the log it read holds a row of the same task_id whose
\* occurrence time lies in [t - 60, t + 60], both ends included.
C10_ClosedWindow ==
    (dq.task_id # None /\ dq.ok) =>
        (dq.ans <=> \E r \in dq.seen : /\ r.task_id = dq.task_id
                                       /\ dq.t - 60 <= r.reminder_datetime
                                       /\ r.reminder_datetime <= dq.t + 60)

\* a query exactly 60 seconds before the only recorded occurrence of the
\* task is answered true, with a row of the other task in the log
C10_Witness ==
    /\ dq.task_id # None /\ dq.ok /\ dq.ans
    /\ \A r \in dq.seen : r.task_id = dq.task_id => r.reminder_datetime = dq.t + 60
    /\ \E r \in dq.seen : r.task_id # dq.task_id

C16_OneTimeWithinGrace ==
    (cin.kind = "calc" /\ cin.pattern = "none" /\ "rem" \in cres.done) =>
        /\ cin.now - cin.anchor <= 5 * Minute => cres.rem = cin.anchor
        /\ cin.now - cin.anchor >  5 * Minute => cres.rem = None

\* a reminder exactly five minutes overdue has been returned unchanged
C16_Witness ==
    /\ cin.kind = "calc" /\ cin.pattern = "none" /\ "rem" \in cres.done
    /\ cin.now - cin.anchor = 5 * Minute
    /\ cres.rem = cin.anchor

\* the reference date combined with the anchor's time of day
TodayAtAnchorTime == Combine(DateOf(cin.now), TimeOf(cin.anchor))

DailyApplied == BothApplied /\ cin.pattern = "daily"

\* C17 as amended: for a daily task the polling calculator, which reads no
\* interval, returns the reference date at the anchor's time of day when
\* that is later than the reference time and one day after it otherwise;
\* the generator with interval N returns the completion date plus N days,
\* at the anchor's time of day when the original due date is given and at
\* the completion's time of day otherwise, in both cases.
C17_DailyPerCalculator ==
    DailyApplied =>
        /\ cres.rem = IF TodayAtAnchorTime > cin.now THEN TodayAtAnchorTime
                      ELSE TodayAtAnchorTime + SecPerDay
        /\ cres.gen = IF cin.use_due
                      THEN TodayAtAnchorTime + cin.interval * SecPerDay
                      ELSE cin.now + cin.interval * SecPerDay

\* interval 2, the anchor's time of day has passed: the polling calculator
\* answered tomorrow, the generator the day after
C17_Witness ==
    /\ DailyApplied /\ cin.interval = 2 /\ cin.use_due
    /\ TodayAtAnchorTime <= cin.now
    /\ cres.rem = TodayAtAnchorTime + SecPerDay
    /\ cres.gen = TodayAtAnchorTime + 2 * SecPerDay

\* C17 as stated: a daily rule with interval N gives the reference date at
\* the anchor's time of day when that is later than the reference time, and
\* otherwise that datetime advanced by N days.
C17_DailyAdvancesByInterval ==
    (DailyApplied /\ cin.use_due) =>
        LET expected == IF TodayAtAnchorTime > cin.now THEN TodayAtAnchorTime
                        ELSE TodayAtAnchorTime + cin.interval * SecPerDay
        IN  cres.rem = expected /\ cres.gen = expected

WeeklyReminderApplied ==
    cin.kind = "calc" /\ cin.pattern = "weekly" /\ "rem" \in cres.done

\* the anchor's time of day on the k-th day after the reference date
AnchorTimeOnDay(k) == Combine(DateOf(cin.now) + k, TimeOf(cin.anchor))

\* C18: for a weekly task the polling calculator returns the earliest
\* datetime strictly later than the reference time that has the anchor's
\* weekday and the anchor's time of day: today when today is that weekday
\* and the time has not passed, the next such weekday otherwise, and never
\* more than 7 days after the reference time
C18_WeeklyEarliestLater ==
    WeeklyReminderApplied =>
        /\ cres.rem > cin.now
        /\ cres.rem - cin.now <= 7 * SecPerDay
        /\ Weekday(DateOf(cres.rem)) = Weekday(DateOf(cin.anchor))
        /\ TimeOf(cres.rem) = TimeOf(cin.anchor)
        /\ \A k \in 0..7 :
              (/\ AnchorTimeOnDay(k) > cin.now
               /\ Weekday(DateOf(cin.now) + k) = Weekday(DateOf(cin.anchor)))
                  => cres.rem <= AnchorTimeOnDay(k)
        /\ (/\ Weekday(DateOf(cin.now)) = Weekday(DateOf(cin.anchor))
            /\ AnchorTimeOnDay(0) > cin.now) => cres.rem = AnchorTimeOnDay(0)

\* the reference time is on the target weekday exactly at the anchor's time
\* of day, and the answer is one week later
C18_Witness ==
    /\ WeeklyReminderApplied
    /\ Weekday(DateOf(cin.now)) = Weekday(DateOf(cin.anchor))
    /\ AnchorTimeOnDay(0) = cin.now
    /\ cres.rem = cin.now + 7 * SecPerDay

\* the generator was applied to a weekly rule with an explicit weekday set
GenWeeklyExplicit ==
    /\ cin.kind = "calc" /\ cin.pattern = "weekly" /\ cin.dow # {}
    /\ "gen" \in cres.done

\* the first date strictly after the reference date whose weekday is listed
NextListedDate ==
    DateOf(cin.now) +
        (CHOOSE k \in 1..7 :
            /\ Weekday(DateOf(cin.now) + k) \in cin.dow
            /\ \A j \in 1..(k - 1) : Weekday(DateOf(cin.now) + j) \notin cin.dow)

\* C19 as amended: for the generator's weekly rule with an explicit weekday
\* set the result lies on a listed weekday strictly after the reference
\* date, never on the reference date itself: on the first listed date after
\* it, moved (interval - 1) weeks further when that date is in a following
\* week; its time of day is the anchor's when the original due date is
\* given and the reference time's otherwise.
C19_StrictlyAfterReference ==
    GenWeeklyExplicit =>
        /\ cres.gen # None
        /\ DateOf(cres.gen) > DateOf(cin.now)
        /\ Weekday(DateOf(cres.gen)) \in cin.dow
        /\ TimeOf(cres.gen) = IF cin.use_due THEN TimeOf(cin.anchor) ELSE TimeOf(cin.now)
        /\ DateOf(cres.gen) =
              IF Weekday(NextListedDate) > Weekday(DateOf(cin.now))
              THEN NextListedDate
              ELSE NextListedDate + (cin.interval - 1) * 7

\* the reference date is a listed weekday and the anchor's time of day is
\* still ahead, and the generator answered a later date
C19_Witness ==
    /\ GenWeeklyExplicit /\ cin.use_due
    /\ Weekday(DateOf(cin.now)) \in cin.dow
    /\ TodayAtAnchorTime > cin.now
    /\ DateOf(cres.gen) > DateOf(cin.now)

\* C19 as stated: the result is the next date on or after the reference
\* date whose weekday is listed, at the anchor's time of day, and the
\* reference date itself when its weekday is listed and the anchor's time
\* of day has not passed.
C19_OnOrAfterReference ==
    (GenWeeklyExplicit /\ cin.use_due) =>
        /\ cres.gen # None
        /\ DateOf(cres.gen) >= DateOf(cin.now)
        /\ Weekday(DateOf(cres.gen)) \in cin.dow
        /\ TimeOf(cres.gen) = TimeOf(cin.anchor)
        /\ (Weekday(DateOf(cin.now)) \in cin.dow /\ TodayAtAnchorTime > cin.now)
              => cres.gen = TodayAtAnchorTime

\* the weekday set the generator's rule carries
Targets == RuleOf(cin).days_of_week

\* the generator was applied to a weekly rule of interval 1 on a target
\* weekday, at or after the anchor's time of day
OnTargetDayTimePassed ==
    /\ cin.kind = "calc" /\ cin.pattern = "weekly" /\ "gen" \in cres.done
    /\ cin.interval = 1 /\ cin.use_due
    /\ Weekday(DateOf(cin.now)) \in Targets
    /\ TodayAtAnchorTime <= cin.now

\* C20: for the generator's weekly rule of interval 1, a reference date on a
\* target weekday with the anchor's time of day passed gives the cyclically
\* next target weekday strictly after the reference date, in the following
\* week when no later target day is left in this one
C20_CyclicallyNextTarget ==
    OnTargetDayTimePassed =>
        /\ cres.gen # None
        /\ DateOf(cres.gen) - DateOf(cin.now) \in 1..7
        /\ Weekday(DateOf(cres.gen)) \in Targets
        /\ \A k \in 1..7 :
              Weekday(DateOf(cin.now) + k) \in Targets
                  => DateOf(cres.gen) <= DateOf(cin.now) + k
        /\ TimeOf(cres.gen) = TimeOf(cin.anchor)

\* targets Monday and Wednesday, a Wednesday reference after the anchor's
\* time of day: the answer is the following Monday
C20_Witness ==
    /\ OnTargetDayTimePassed
    /\ cin.dow = {0, 2} /\ Weekday(DateOf(cin.now)) = 2
    /\ TodayAtAnchorTime < cin.now
    /\ Weekday(DateOf(cres.gen)) = 0
    /\ DateOf(cres.gen) = DateOf(cin.now) + 5

\* months counted from year 0
MonthIndex(date) == YMD(date).y * 12 + YMD(date).m - 1

\* day d placed in the month of date: min(d, length of that month)
ClampedDay(d, date) ==
    IF d <= DaysInMonth(YMD(date).y, YMD(date).m) THEN d
    ELSE DaysInMonth(YMD(date).y, YMD(date).m)

MonthlyApplied == BothApplied /\ cin.pattern = "monthly"

\* C21: a monthly placement yields day min(d, length of the month placed
\* in) and a date in that month, never an error: the polling calculator
\* places the anchor's day in the reference month or the next one, the
\* generator places the rule's day in the month interval months later
C21_MonthlyClamps ==
    MonthlyApplied =>
        /\ cres.rem # None /\ cres.gen # None
        /\ MonthIndex(DateOf(cres.rem)) - MonthIndex(DateOf(cin.now)) \in {0, 1}
        /\ DayOfMonth(DateOf(cres.rem)) =
               ClampedDay(DayOfMonth(DateOf(cin.anchor)), DateOf(cres.rem))
        /\ MonthIndex(DateOf(cres.gen)) = MonthIndex(DateOf(cin.now)) + cin.interval
        /\ DayOfMonth(DateOf(cres.gen)) =
               ClampedDay(RuleOf(cin).day_of_month, DateOf(cres.gen))

\* day 31 placed in the leap February of the reference date, and the
\* generator's day 31 placed in a 30-day or shorter month
C21_Witness ==
    /\ MonthlyApplied
    /\ DayOfMonth(DateOf(cin.anchor)) = 31 /\ RuleOf(cin).day_of_month = 31
    /\ YMD(DateOf(cin.now)).m = 2
    /\ YMD(DateOf(cres.rem)).m = 2 /\ YMD(DateOf(cres.rem)).d = 29
    /\ YMD(DateOf(cres.gen)).d < 31

MonthlyReapplied ==
    cin.kind = "calc" /\ cin.pattern = "monthly" /\ "again" \in cres.done

\* C22 as amended: called again at the occurrence it returned, the generator,
\* whose rule carries the day-of-month, advances by interval months and
\* places the rule's day with the same clamping; the polling calculator,
\* which takes the day from the anchor, advances by one month and does the
\* same while the anchor is kept, and places the returned date's day, the
\* clamped one, when the returned date is made the anchor.
C22_ReapplicationPerCalculator ==
    MonthlyReapplied =>
        /\ MonthIndex(DateOf(cres.gen2)) = MonthIndex(DateOf(cres.gen)) + cin.interval
        /\ DayOfMonth(DateOf(cres.gen2)) =
               ClampedDay(RuleOf(cin).day_of_month, DateOf(cres.gen2))
        /\ MonthIndex(DateOf(cres.keep2)) = MonthIndex(DateOf(cres.rem)) + 1
        /\ DayOfMonth(DateOf(cres.keep2)) =
               ClampedDay(DayOfMonth(DateOf(cin.anchor)), DateOf(cres.keep2))
        /\ MonthIndex(DateOf(cres.rem2)) = MonthIndex(DateOf(cres.rem)) + 1
        /\ DayOfMonth(DateOf(cres.rem2)) =
               ClampedDay(DayOfMonth(DateOf(cres.rem)), DateOf(cres.rem2))

\* a day-31 rule gave 29 February in both calculators; called again, the
\* generator and the polling calculator with the anchor kept give 31 March,
\* the polling calculator anchored at 29 February gives 29 March
C22_Witness ==
    /\ MonthlyReapplied
    /\ DayOfMonth(DateOf(cin.anchor)) = 31 /\ RuleOf(cin).day_of_month = 31
    /\ YMD(DateOf(cres.rem)).m = 2 /\ YMD(DateOf(cres.rem)).d = 29
    /\ cres.gen = cres.rem
    /\ YMD(DateOf(cres.gen2)).m = 3 /\ YMD(DateOf(cres.gen2)).d = 31
    /\ cres.keep2 = cres.gen2
    /\ YMD(DateOf(cres.rem2)).m = 3 /\ YMD(DateOf(cres.rem2)).d = 29

\* C22 as stated: called again with the returned date as the new anchor,
\* either calculator advances by one month-cycle and places the rule's
\* day-of-month, the day of the first anchor, with the same clamping.
C22_NoDriftOnReapplication ==
    MonthlyReapplied =>
        /\ MonthIndex(DateOf(cres.gen2)) = MonthIndex(DateOf(cres.gen)) + cin.interval
        /\ DayOfMonth(DateOf(cres.gen2)) =
               ClampedDay(RuleOf(cin).day_of_month, DateOf(cres.gen2))
        /\ MonthIndex(DateOf(cres.rem2)) = MonthIndex(DateOf(cres.rem)) + 1
        /\ DayOfMonth(DateOf(cres.rem2)) =
               ClampedDay(DayOfMonth(DateOf(cin.anchor)), DateOf(cres.rem2))

RecurringReminderApplied ==
    /\ cin.kind = "calc" /\ cin.pattern \in {"daily", "weekly", "monthly"}
    /\ "rem" \in cres.done

\* the anchor's day placed in the reference month, at the anchor's time
ThisMonthAtAnchorTime ==
    Combine(ReplaceDay(DateOf(cin.now),
                ClampedDay(DayOfMonth(DateOf(cin.anchor)), DateOf(cin.now))),
            TimeOf(cin.anchor))

\* C23: in the polling calculators a candidate equal to the reference time
\* counts as passed: the daily, weekly and monthly results are strictly
\* later than the reference time, and a candidate for today (this month)
\* exactly at the reference time gives the following day's, week's or
\* month's occurrence
C23_BoundaryCountsAsPassed ==
    RecurringReminderApplied =>
        /\ cres.rem # None /\ cres.rem > cin.now
        /\ (cin.pattern = "daily" /\ TodayAtAnchorTime = cin.now)
              => cres.rem = cin.now + SecPerDay
        /\ (/\ cin.pattern = "weekly" /\ TodayAtAnchorTime = cin.now
            /\ Weekday(DateOf(cin.now)) = Weekday(DateOf(cin.anchor)))
              => cres.rem = cin.now + 7 * SecPerDay
        /\ (cin.pattern = "monthly" /\ ThisMonthAtAnchorTime = cin.now)
              => /\ MonthIndex(DateOf(cres.rem)) = MonthIndex(DateOf(cin.now)) + 1
                 /\ TimeOf(cres.rem) = TimeOf(cin.anchor)

\* this month's candidate of a monthly task is exactly the reference time
\* and the answer lies in the next month
C23_Witness ==
    /\ RecurringReminderApplied /\ cin.pattern = "monthly"
    /\ ThisMonthAtAnchorTime = cin.now
    /\ MonthIndex(DateOf(cres.rem)) = MonthIndex(DateOf(cin.now)) + 1

(***************************************************************************)
(* Further properties of the recurring-task service (SpecEvent).           *)
(***************************************************************************)
\* an event handle_task_event drops: not task.completed, no recurrence
\* rule, or a rule with no computable next occurrence
Dropped(e) ==
    \/ EventOf(e).event_type # "task.completed"
    \/ EventOf(e).recurrence_rule = NoRule
    \/ calculate_next_occurrence(EventNow, EventOf(e).recurrence_rule,
                                 EventOf(e).due_date) = None

\* C24: a failed publish returns RETRY and writes no idempotency state, so
\* that a redelivery while the key is absent goes on to the publish again;
\* the key is written only after a successful publish; an event that is
\* not task.completed, has no rule or no computable next occurrence
\* returns DROP, is never published and never gets a key
C24_RetryWritesNoState ==
    [][ /\ \A r \in eret' \ eret :
              /\ r.status \in {"RETRY", "DROP"} => estore' = estore /\ epub' = epub
              /\ r.status = "DROP" <=> Dropped(r.event)
        /\ \A e \in EventIds :
              /\ e \in estore' => epub'[e] >= 1
              /\ Dropped(e) => epub'[e] = 0 /\ e \notin estore'
              /\ (edeliv'[e] # edeliv[e] /\ e \notin estore /\ ~Dropped(e))
                    => \E h \in HandlerIds :
                          /\ eh'[h].pc = "publish" /\ eh'[h].event = e
                          /\ eh'[h].delivery = edeliv'[e]
       ]_vars

\* a delivery returned RETRY, the key stayed absent, and the next delivery
\* of the same event published and wrote the key; a dropped event returned
\* DROP
C24_Witness ==
    /\ \E e \in EventIds, k \in 1..MaxDeliveries :
          /\ Returned(e, k, "RETRY") \in eret
          /\ Returned(e, k + 1, "SUCCESS") \in eret
          /\ epub[e] = 1 /\ e \in estore
    /\ \E r \in eret : r.status = "DROP"

(***************************************************************************)
(* Further properties of the polling loop (Spec).                          *)
(***************************************************************************)
\* C25: the loop invokes the send for a task only when the occurrence time
\* it computed, and records the reminder under, is no later than
\* now + lookahead, whatever the recurrence pattern
C25_SentOnlyWithinLookahead ==
    [][ \A s \in sends' \ sends :
            s.rdt <= now + REMINDER_LOOKAHEAD_MINUTES * Minute ]_vars

\* C27: every one-time task the fetch admitted gets, when the loop evaluates
\* it later in the same cycle, an occurrence that is not None and equals its
\* reminder_time
C27_AdmittedOneTimeGetsOccurrence ==
    \A i \in 1..Len(trace) :
        tasks[i].recurrence_pattern = "none" =>
            /\ trace[i].code # "no_datetime"
            /\ trace[i].rdt # None => trace[i].rdt = tasks[i].reminder_time

(***************************************************************************)
(* Properties of the polling loop on schedule (SpecLive).                  *)
(***************************************************************************)
SentOk(i) == \E s \in sends : s.task_id = i /\ s.outcome = "ok"

C28_ConcurrentAtMostOnePublish ==
    \A g, h \in HandlerIds :
        (g # h /\ eh[g].event # None /\ eh[g].event = eh[h].event)
            => ~(eh[g].pc = "save" /\ eh[h].pc = "save")

(***************************************************************************)
(* Properties of the completion toggle (SpecApi).                          *)
(***************************************************************************)
Occurrences(id) == {j \in 1..Len(atasks) : atasks[j].origin = id}

\* C29: whatever the sequence of toggle_complete calls on a recurring task
\* with a due date, at most one next occurrence is created for it, and a
\* created occurrence has the due date advanced by one day, week or month
\* and the reminder offset of the task it comes from
C29_AtMostOneNextOccurrence ==
    \A id \in 1..Len(atasks) :
        /\ Cardinality(Occurrences(id)) <= 1
        /\ \A j \in Occurrences(id) :
              /\ atasks[j].due_date = NextDue(atasks[id])
              /\ atasks[id].reminder_time # None =>
                    atasks[j].due_date - atasks[j].reminder_time
                        = atasks[id].due_date - atasks[id].reminder_time

(***************************************************************************)
(* Weekday numbering from the API to the generator (SpecCalc).             *)
(***************************************************************************)
\* number of a date's weekday as the API counts: Monday = 1 .. Sunday = 7
ApiWeekday(date) == Weekday(date) + 1

\* C30: for every days_of_week list that validate_recurrence_rule accepts,
\* the date the generator's weekly calculation returns falls on one of the
\* requested days, counted as the API counts them (Monday = 1, Sunday = 7)
C30_WeekdayNumberingConsistent ==
    (cin.kind = "rule" /\ cres.accepted /\ "gen" \in cres.done) =>
        /\ cres.gen # None
        /\ ApiWeekday(DateOf(cres.gen)) \in cin.dow

====
